---- MODULE Spec2Model ----
(***************************************************************************)
(* A model of the Aadhaar / mobile validation and masking engine:          *)
(* base.py (normalisation, sequential runs), ind_aadhaar.py (Verhoeff,     *)
(* validate_single, mask_aadhaar), phone.py (mask_e164,                    *)
(* validate_single_phone), the batch pipeline of app.py (empty-row filter, *)
(* validation, deduplication, overall validity, summary counters, the      *)
(* downloads and exports) and save_run of local_store.py.                  *)
(*                                                                         *)
(* Python strings are modelled as sequences of one-character strings, so   *)
(* that slicing, stripping and regular-expression matching are computed    *)
(* character by character as the code computes them.                       *)
(***************************************************************************)
EXTENDS Integers, Sequences, FiniteSets, TLC

VARIABLES
    \* ---- Verhoeff loops (ind_aadhaar.py:34-50), run in lockstep ----
    vh_i,        \* number of items of reversed(number_with_check) consumed
    vh_last,     \* the first item consumed: the last digit of the number
    c_gen,       \* accumulator c of verhoeff_check_digit over the body
    c_val,       \* accumulator c of verhoeff_validate over the number
    c_alt,       \* accumulator c of verhoeff_validate over the altered number
    vh_altered,  \* whether one digit of the altered number differs so far
    \* ---- pure text functions ----
    tpc,         \* which function has been applied to value
    value,       \* the input value
    text_out,    \* the str result of the function applied last
    text_prev,   \* the str result before the last re-application
    vs_out,      \* the dict returned by validate_single
    vp_lib,      \* what the phonenumbers library answers for value
    vp_region,   \* the default_region validate_single_phone is called with
    vp_out,      \* the dict returned by validate_single_phone
    min_run,     \* the min_run has_sequential_digits is called with
    seq_out,     \* the bool returned by has_sequential_digits
    \* ---- the batch pipeline of app.py ----
    pc,                 \* the position of the script run
    df,                 \* the uploaded table: one record per row
    phone_lib,          \* per row, what the phonenumbers library answers
    dedup_mode,         \* the sidebar's "Deduplicate by", "None" until selected
    work,               \* the working frame
    dropped_all_empty,  \* app.py:193
    dedup_applied,      \* app.py:223-229
    stats,              \* the summary counters, app.py:246-253
    artifacts           \* the files offered for download or written to ./runs

vars == <<vh_i, vh_last, c_gen, c_val, c_alt, vh_altered,
          tpc, value, text_out, text_prev, vs_out,
          vp_lib, vp_region, vp_out, min_run, seq_out,
          pc, df, phone_lib, dedup_mode, work, dropped_all_empty,
          dedup_applied, stats, artifacts>>

vh_vars == <<vh_i, vh_last, c_gen, c_val, c_alt, vh_altered>>
call_vars == <<vp_lib, vp_region, vp_out, min_run, seq_out>>
text_vars == <<tpc, value, text_out, text_prev, vs_out, call_vars>>
pipe_vars == <<pc, df, phone_lib, dedup_mode, work, dropped_all_empty,
               dedup_applied, stats, artifacts>>

------------------------------------------------------------------------------
(* Characters and strings *)

\* base.py:9
DIGITS == <<"0", "1", "2", "3", "4", "5", "6", "7", "8", "9">>

DigitChars == {DIGITS[k] : k \in 1..Len(DIGITS)}

\* The value of each decimal digit character
DigitValue == [ch \in DigitChars |-> (CHOOSE k \in 1..Len(DIGITS) : DIGITS[k] = ch) - 1]

\* Python int() of one decimal digit character
int(ch) == DigitValue[ch]

\* Python str() of one decimal digit
str(n) == DIGITS[n + 1]

\* str.isspace for the characters of the model
Whitespace == {" ", "\t", "\n"}

\* s[a:b] for 0 <= a, in Python's half-open convention
Slice(s, a, b) == SubSeq(s, a + 1, IF b > Len(s) THEN Len(s) ELSE b)

\* s[-k:] for k >= 1
LastK(s, k) == IF Len(s) <= k THEN s ELSE SubSeq(s, Len(s) - k + 1, Len(s))

------------------------------------------------------------------------------
(* Verhoeff tables: ind_aadhaar.py:10-32 *)

\* The length validate_single requires: ind_aadhaar.py:78
AadhaarLen == 12

_d == <<
    <<0,1,2,3,4,5,6,7,8,9>>,
    <<1,2,3,4,0,6,7,8,9,5>>,
    <<2,3,4,0,1,7,8,9,5,6>>,
    <<3,4,0,1,2,8,9,5,6,7>>,
    <<4,0,1,2,3,9,5,6,7,8>>,
    <<5,9,8,7,6,0,4,3,2,1>>,
    <<6,5,9,8,7,1,0,4,3,2>>,
    <<7,6,5,9,8,2,1,0,4,3>>,
    <<8,7,6,5,9,3,2,1,0,4>>,
    <<9,8,7,6,5,4,3,2,1,0>> >>

\* Mutant of _p: row 1 with its last entry mistyped, no longer a permutation
p_mistyped ==
    <<
    <<0,1,2,3,4,5,6,7,8,9>>,
    <<1,5,7,6,2,8,3,0,9,1>>,
    <<5,8,0,3,7,9,6,1,4,2>>,
    <<8,9,1,6,0,4,3,5,2,7>>,
    <<9,4,5,3,1,2,6,8,7,0>>,
    <<4,2,8,6,5,7,3,9,0,1>>,
    <<2,7,9,3,8,0,6,4,1,5>>,
    <<7,0,4,6,9,1,3,2,5,8>> >>

_p == <<
    <<0,1,2,3,4,5,6,7,8,9>>,
    <<1,5,7,6,2,8,3,0,9,4>>,
    <<5,8,0,3,7,9,6,1,4,2>>,
    <<8,9,1,6,0,4,3,5,2,7>>,
    <<9,4,5,3,1,2,6,8,7,0>>,
    <<4,2,8,6,5,7,3,9,0,1>>,
    <<2,7,9,3,8,0,6,4,1,5>>,
    <<7,0,4,6,9,1,3,2,5,8>> >>

_inv == <<0,4,3,2,1,5,6,7,8,9>>

\* _d[c][x], _p[r][x], _inv[c] with Python's 0-based indices
D(c, x) == _d[c + 1][x + 1]
P(r, x) == _p[r + 1][x + 1]
INV(c) == _inv[c + 1]

\* Mutant of CheckDigitStep: the permutation row of verhoeff_validate, i
\* instead of i + 1
CheckDigitStep_unshifted(c, i, item) == D(c, P(i % 8, item))

\* One iteration of the loop of verhoeff_check_digit (ind_aadhaar.py:41):
\* i is the index of item in the reversed body.
CheckDigitStep(c, i, item) == D(c, P((i + 1) % 8, item))

\* One iteration of the loop of verhoeff_validate (ind_aadhaar.py:49):
\* i is the index of item in the reversed number.
ValidateStep(c, i, item) == D(c, P(i % 8, item))

\* The loops of the two functions over the first n items of
\* reversed(number): item i of the reversed string is number[Len - i], 1-based.
RECURSIVE CheckDigitLoop(_, _)
CheckDigitLoop(number, n) ==
    IF n = 0 THEN 0
    ELSE CheckDigitStep(CheckDigitLoop(number, n - 1), n - 1,
                        int(number[Len(number) + 1 - n]))

RECURSIVE ValidateLoop(_, _)
ValidateLoop(number, n) ==
    IF n = 0 THEN 0
    ELSE ValidateStep(ValidateLoop(number, n - 1), n - 1,
                      int(number[Len(number) + 1 - n]))

\* ind_aadhaar.py:34-42
verhoeff_check_digit(number_without_check) ==
    str(INV(CheckDigitLoop(number_without_check, Len(number_without_check))))

\* ind_aadhaar.py:44-50
verhoeff_validate(number_with_check) ==
    ValidateLoop(number_with_check, Len(number_with_check)) = 0

------------------------------------------------------------------------------
(* Normalisation: base.py:13-34.  A Python value is a record: tag "None" for   *)
(* None, "float_nan" for the float NaN pandas puts in an empty cell, "str" for *)
(* a string with characters s.                                                 *)

NoneValue == [tag |-> "None", s |-> <<>>]
NaNValue == [tag |-> "float_nan", s |-> <<>>]
StrValue(s) == [tag |-> "str", s |-> s]

\* str(value) for a value that is not None
str_value(v) == IF v.tag = "float_nan" THEN <<"n", "a", "n">> ELSE v.s

\* str.lower for the letters of the model
LowerChar(ch) ==
    CASE ch = "N" -> "n"
      [] ch = "A" -> "a"
      [] OTHER -> ch

RECURSIVE lower(_)
lower(s) == IF s = <<>> THEN <<>> ELSE <<LowerChar(Head(s))>> \o lower(Tail(s))

RECURSIVE lstrip(_)
lstrip(s) ==
    IF s = <<>> THEN <<>>
    ELSE IF Head(s) \in Whitespace THEN lstrip(Tail(s)) ELSE s

RECURSIVE rstrip(_)
rstrip(s) ==
    IF s = <<>> THEN <<>>
    ELSE IF s[Len(s)] \in Whitespace THEN rstrip(SubSeq(s, 1, Len(s) - 1)) ELSE s

\* s.strip()
strip(s) == rstrip(lstrip(s))

\* Length of the longest prefix of s without whitespace
RECURSIVE WordLen(_)
WordLen(s) ==
    IF s = <<>> \/ Head(s) \in Whitespace THEN 0 ELSE 1 + WordLen(Tail(s))

\* s.split(): the maximal runs of non-whitespace characters, in order
RECURSIVE split(_)
split(s) ==
    LET t == lstrip(s)
        n == WordLen(t)
    IN IF t = <<>> THEN <<>>
       ELSE <<SubSeq(t, 1, n)>> \o split(SubSeq(t, n + 1, Len(t)))

\* sep.join(words)
RECURSIVE join(_, _)
join(sep, words) ==
    IF words = <<>> THEN <<>>
    ELSE IF Len(words) = 1 THEN words[1]
    ELSE words[1] \o sep \o join(sep, Tail(words))

\* base.py:13-25
normalize_text(v) ==
    IF v.tag = "None" THEN <<>>
    ELSE LET s == str_value(v)
         IN IF strip(s) = <<>> \/ lower(s) = <<"n", "a", "n">> THEN <<>>
            ELSE strip(join(<<" ">>, split(s)))

IsDigitChar(ch) == ch \in DigitChars

\* re.sub(r"\D+", "", s)
StripNonDigits(s) == SelectSeq(s, IsDigitChar)

\* s.isdigit()
isdigit(s) == s # <<>> /\ \A k \in 1..Len(s) : IsDigitChar(s[k])

\* base.py:27-34
normalize_digits(v) ==
    LET s == normalize_text(v)
    IN IF s = <<>> THEN <<>> ELSE StripNonDigits(s)

\* base.py:62-76: the loop of _has_sequential_run_digits from index i on
RECURSIVE SequentialRunLoop(_, _, _, _, _)
SequentialRunLoop(seq, min_run_, i, run_up, run_down) ==
    IF i >= Len(seq) THEN FALSE
    ELSE IF IsDigitChar(seq[i + 1]) /\ IsDigitChar(seq[i])
    THEN LET cur == DigitValue[seq[i + 1]]
             prev == DigitValue[seq[i]]
             up == IF cur = prev + 1 THEN run_up + 1 ELSE 1
             down == IF cur = prev + 1 THEN 1
                     ELSE IF cur = prev - 1 THEN run_down + 1 ELSE 1
         IN IF up >= min_run_ \/ down >= min_run_ THEN TRUE
            ELSE SequentialRunLoop(seq, min_run_, i + 1, up, down)
    ELSE SequentialRunLoop(seq, min_run_, i + 1, 1, 1)

\* base.py:58-77
_has_sequential_run_digits(seq, min_run_) ==
    IF Len(seq) < min_run_ THEN FALSE
    ELSE SequentialRunLoop(seq, min_run_, 1, 1, 1)

\* base.py:79-82
has_sequential_digits(s, min_run_) ==
    _has_sequential_run_digits(StripNonDigits(s), min_run_)

------------------------------------------------------------------------------
(* Aadhaar masking and validation: ind_aadhaar.py:52-83 *)

\* format(s, ">w"): s right-aligned in a field of width w, padded with spaces
RECURSIVE RightAlign(_, _)
RightAlign(s, w) == IF Len(s) >= w THEN s ELSE RightAlign(<<" ">> \o s, w)

\* Mutant of mask_aadhaar: the first four digits, digits[:4], are shown
mask_aadhaar_first4(a12) ==
    LET digits == normalize_digits(a12)
        first4 == IF Len(digits) >= 4 THEN Slice(digits, 0, 4) ELSE digits
    IN IF digits = <<>> THEN <<>>
       ELSE <<"X", "X", "X", "X", "-", "X", "X", "X", "X", "-">>
            \o RightAlign(first4, 4)

\* ind_aadhaar.py:52-61
mask_aadhaar(a12) ==
    LET digits == normalize_digits(a12)
        last4 == IF Len(digits) >= 4 THEN LastK(digits, 4) ELSE digits
    IN IF digits = <<>> THEN <<>>
       ELSE <<"X", "X", "X", "X", "-", "X", "X", "X", "X", "-">>
            \o RightAlign(last4, 4)

\* Mutant of validate_single: the checksum is tested before the length
validate_single_checksum_first(aadhaar_like) ==
    LET digits == normalize_digits(aadhaar_like)
        out == [aadhaar |-> digits, valid |-> FALSE, reason |-> ""]
    IN IF digits = <<>> THEN [out EXCEPT !.reason = "MISSING"]
       ELSE IF ~isdigit(digits) THEN [out EXCEPT !.reason = "NON_NUMERIC"]
       ELSE IF ~verhoeff_validate(digits)
            THEN [out EXCEPT !.reason = "CHECKSUM_FAIL"]
       ELSE IF Len(digits) # AadhaarLen THEN [out EXCEPT !.reason = "LENGTH_NEQ_12"]
       ELSE [out EXCEPT !.valid = TRUE]

\* ind_aadhaar.py:63-83
validate_single(aadhaar_like) ==
    LET digits == normalize_digits(aadhaar_like)
        out == [aadhaar |-> digits, valid |-> FALSE, reason |-> ""]
    IN IF digits = <<>> THEN [out EXCEPT !.reason = "MISSING"]
       ELSE IF ~isdigit(digits) THEN [out EXCEPT !.reason = "NON_NUMERIC"]
       ELSE IF Len(digits) # AadhaarLen THEN [out EXCEPT !.reason = "LENGTH_NEQ_12"]
       ELSE IF ~verhoeff_validate(digits)
            THEN [out EXCEPT !.reason = "CHECKSUM_FAIL"]
       ELSE [out EXCEPT !.valid = TRUE]

------------------------------------------------------------------------------
(* Phone masking: phone.py:13-35 *)

\* The digits the pattern E164_RE (phone.py:13) is matched against: what
\* follows the leading "+", without the one trailing newline "$" lets pass.
E164Body(e164) ==
    LET rest == Tail(e164)
    IN IF rest # <<>> /\ rest[Len(rest)] = "\n"
       THEN SubSeq(rest, 1, Len(rest) - 1) ELSE rest

\* E164_RE.match(e164) is not None: "+", then at least 1 + 3 + 3 + 1 digits
E164Matches(e164) ==
    /\ e164 # <<>> /\ Head(e164) = "+"
    /\ isdigit(E164Body(e164))
    /\ Len(E164Body(e164)) >= 8

\* The length of group 1, \d{1,3}: greedy, so the longest of 3, 2, 1 that
\* leaves 3 + 3 + at least 1 digits to the other groups.
E164CcLen(e164) ==
    LET n == Len(E164Body(e164))
    IN IF n - 3 >= 7 THEN 3 ELSE IF n - 2 >= 7 THEN 2 ELSE 1

\* m.groups() of E164_RE.match(e164)
E164Groups(e164) ==
    LET body == E164Body(e164)
        k == E164CcLen(e164)
    IN [cc |-> Slice(body, 0, k),
        a |-> Slice(body, k, k + 3),
        b |-> Slice(body, k + 3, k + 6),
        rest |-> Slice(body, k + 6, Len(body))]

\* phone.py:15-35
mask_e164(e164) ==
    IF e164 = <<>> \/ Head(e164) # "+" THEN <<>>
    ELSE IF E164Matches(e164)
    THEN LET g == E164Groups(e164)
             last4 == IF Len(g.rest) >= 4 THEN LastK(g.rest, 4) ELSE g.rest
         IN <<"+">> \o g.cc \o <<"-", "X", "X", "X", "-", "X", "X", "X", "-">>
            \o last4
    ELSE LET cc == IF isdigit(Slice(e164, 1, 4)) THEN Slice(e164, 1, 4) ELSE <<>>
             digits == StripNonDigits(e164)
             last4 == IF Len(digits) >= 4 THEN LastK(digits, 4) ELSE digits
         IN IF cc # <<>>
            THEN <<"+">> \o cc
                 \o <<"-", "*", "*", "*", "*", "-", "*", "*", "*", "*", "-">>
                 \o last4
            ELSE <<"*", "*", "*", "-", "*", "*", "*", "-">> \o last4

------------------------------------------------------------------------------
(* Categories: base.py:105-121 *)

\* base.py:105-112
category_aadhaar(reason) ==
    IF reason = "" THEN "VALID"
    ELSE IF reason \in {"MISSING", "NON_NUMERIC", "LENGTH_NEQ_12", "CHECKSUM_FAIL"}
    THEN reason ELSE "INVALID"

\* base.py:114-121
category_mobile(reason) ==
    IF reason = "" THEN "VALID"
    ELSE IF reason \in {"MISSING", "PARSE_FAIL", "NOT_VALID", "NOT_MOBILE_TYPE"}
    THEN reason ELSE "INVALID"

------------------------------------------------------------------------------
(* Phone validation: phone.py:37-89.  The phonenumbers library is not part of  *)
(* the repository: what it answers for one text and region is an input, a      *)
(* record lib with                                                             *)
(*   parsed    phonenumbers.parse returned a number (no NumberParseException)  *)
(*   possible  is_possible_number          valid   is_valid_number             *)
(*   ntype     the name of number_type     e164    format_number(.., E164)     *)
(*   region    region_code_for_number, "" for None                             *)

\* validate_single_phone with the line type tested before the validity
validate_single_phone_type_first(raw, default_region, lib) ==
    LET s == normalize_text(raw)
        out == [raw |-> s, e164 |-> <<>>, valid |-> FALSE, reason |-> "",
                region |-> "", type |-> ""]
    IN IF s = <<>> THEN [out EXCEPT !.reason = "MISSING"]
       ELSE IF ~lib.parsed THEN [out EXCEPT !.reason = "PARSE_FAIL"]
       ELSE IF lib.ntype \notin {"MOBILE", "FIXED_LINE_OR_MOBILE"}
            THEN [out EXCEPT !.type = lib.ntype, !.reason = "NOT_MOBILE_TYPE"]
       ELSE IF ~lib.possible THEN [out EXCEPT !.reason = "NOT_VALID"]
       ELSE IF ~lib.valid THEN [out EXCEPT !.reason = "NOT_VALID"]
       ELSE [out EXCEPT !.type = lib.ntype,
                        !.e164 = lib.e164,
                        !.region = IF lib.region # "" THEN lib.region
                                   ELSE default_region,
                        !.valid = TRUE]

\* phone.py:37-73
validate_single_phone(raw, default_region, lib) ==
    LET s == normalize_text(raw)
        out == [raw |-> s, e164 |-> <<>>, valid |-> FALSE, reason |-> "",
                region |-> "", type |-> ""]
    IN IF s = <<>> THEN [out EXCEPT !.reason = "MISSING"]
       ELSE IF ~lib.parsed THEN [out EXCEPT !.reason = "PARSE_FAIL"]
       ELSE IF ~lib.possible THEN [out EXCEPT !.reason = "NOT_VALID"]
       ELSE IF ~lib.valid THEN [out EXCEPT !.reason = "NOT_VALID"]
       ELSE IF lib.ntype \notin {"MOBILE", "FIXED_LINE_OR_MOBILE"}
            THEN [out EXCEPT !.type = lib.ntype, !.reason = "NOT_MOBILE_TYPE"]
       ELSE [out EXCEPT !.type = lib.ntype,
                        !.e164 = lib.e164,
                        !.region = IF lib.region # "" THEN lib.region
                                   ELSE default_region,
                        !.valid = TRUE]

\* What the oracle record holds when parse raised NumberParseException, or
\* when the library is never asked
LibNoAnswer ==
    [parsed |-> FALSE, possible |-> FALSE, valid |-> FALSE, ntype |-> "UNKNOWN",
     e164 |-> <<>>, region |-> ""]

\* A dict validate_single_phone has not filled in
NoPhoneResult ==
    [raw |-> <<>>, e164 |-> <<>>, valid |-> FALSE, reason |-> "",
     region |-> "", type |-> ""]

------------------------------------------------------------------------------
(* The two Verhoeff loops run in lockstep over one 12-digit number, digit by   *)
(* digit from the right, together with verhoeff_validate over a second number  *)
(* that differs from the first in at most one position.                        *)

DigitValues == 0..9

VhIdle ==
    /\ vh_i = 0 /\ vh_last = 0 /\ c_gen = 0 /\ c_val = 0 /\ c_alt = 0
    /\ vh_altered = FALSE

TextIdle ==
    /\ tpc = "idle"
    /\ value = NoneValue
    /\ text_out = <<>>
    /\ text_prev = <<>>
    /\ vs_out = [aadhaar |-> <<>>, valid |-> FALSE, reason |-> ""]
    /\ vp_lib = LibNoAnswer
    /\ vp_region = ""
    /\ vp_out = NoPhoneResult
    /\ min_run = 0
    /\ seq_out = FALSE

\* The loops consume item number vh_i of the reversed number. Item 0 is the
\* number's last digit, which is not part of the body verhoeff_check_digit
\* reads; item i >= 1 is item i - 1 of the reversed body. alt is the digit the
\* altered number holds at the same position.
VerhoeffStep ==
    /\ vh_i < AadhaarLen
    /\ \E item \in DigitValues, alt \in DigitValues :
        /\ (alt # item) => ~vh_altered
        /\ vh_last' = IF vh_i = 0 THEN item ELSE vh_last
        /\ c_gen' = IF vh_i = 0 THEN 0 ELSE CheckDigitStep(c_gen, vh_i - 1, item)
        /\ c_val' = ValidateStep(c_val, vh_i, item)
        /\ c_alt' = ValidateStep(c_alt, vh_i, alt)
        /\ vh_altered' = (vh_altered \/ alt # item)
    /\ vh_i' = vh_i + 1
    /\ UNCHANGED <<text_vars, pipe_vars>>

NoStats ==
    [total_rows |-> 0, processed |-> 0, distinct_after |-> 0,
     aadhaar_valid_count |-> 0, aadhaar_invalid_count |-> 0,
     mobile_valid_count |-> 0, mobile_invalid_count |-> 0,
     overall_valid_count |-> 0]

PipeIdle ==
    /\ pc = "idle" /\ df = <<>> /\ phone_lib = <<>> /\ dedup_mode = "None"
    /\ work = <<>> /\ dropped_all_empty = 0 /\ dedup_applied = 0
    /\ stats = NoStats
    /\ artifacts = {}

InitVerhoeff == VhIdle /\ TextIdle /\ PipeIdle

NextVerhoeff == VerhoeffStep

SpecVerhoeff == InitVerhoeff /\ [][NextVerhoeff]_vars

\* The number read so far is complete, and its last digit is the check digit
\* verhoeff_check_digit returns for its body.
VhCheckDigitAppended == vh_i = AadhaarLen /\ str(vh_last) = str(INV(c_gen))

\* C4: for every 11-digit body b, the 12-digit string b + verhoeff_check_digit(b)
\* is accepted by verhoeff_validate.
C4_CheckDigitValidates == VhCheckDigitAppended => (c_val = 0)

C4_Witness == VhCheckDigitAppended /\ c_val = 0 /\ c_gen # 0

\* C5: every 12-digit string that verhoeff_validate accepts is rejected once
\* the digit at any one position is replaced by a different digit.
C5_SingleDigitErrorDetected ==
    (vh_i = AadhaarLen /\ c_val = 0 /\ vh_altered) => (c_alt # 0)

C5_Witness == vh_i = AadhaarLen /\ c_val = 0 /\ vh_altered /\ c_alt # 0

------------------------------------------------------------------------------
(* The pure functions applied to one input value.                              *)

\* Longest free-form text, longest short digit string
MaxTextLen == 4
MaxDigitLen == 5

\* Whitespace, letters (of "nan" in both cases), a digit and a separator
TextChars == {" ", "\t", "n", "a", "N", "7", "-"}

\* Every string over chars of length at most n
StringsUpTo(chars, n) == UNION {[1..k -> chars] : k \in 0..n}

FreeTexts == StringsUpTo(TextChars, MaxTextLen)

ShortDigitStrings == StringsUpTo({"1", "2", "3"}, MaxDigitLen)

\* Two 12-digit strings: spec.md's valid example and its invalid one
AadhaarBases ==
    { <<"2", "3", "4", "1", "2", "3", "4", "1", "2", "3", "4", "6">>,
      <<"1", "2", "3", "4", "5", "6", "7", "8", "9", "0", "1", "2">> }

\* s with ch inserted after its first k characters
InsertAt(s, k, ch) == SubSeq(s, 1, k) \o <<ch>> \o SubSeq(s, k + 1, Len(s))

\* Each base; with any one digit replaced; one digit shorter or longer; with
\* one whitespace, separator or letter inserted anywhere.
AadhaarLikes ==
    UNION { {[b EXCEPT ![k] = ch] : k \in 1..Len(b), ch \in DigitChars}
            \cup {SubSeq(b, 1, Len(b) - 1)}
            \cup {b \o <<ch>> : ch \in DigitChars}
            \cup {InsertAt(b, k, ch) : k \in 0..Len(b), ch \in {" ", "-", "a"}}
          : b \in AadhaarBases }

\* Canonical Indian mobile numbers: "+91" and 10 digits
IndianE164s == {<<"+", "9", "1">> \o t : t \in [1..10 -> {"0", "9"}]}

\* Longest malformed phone text
MaxPhoneLikeLen == 5

\* Texts that are not canonical numbers: with and without the leading "+",
\* with a letter among the digits, with fewer digits than the pattern needs
PhoneLikes == StringsUpTo({"+", "1", "2", "a"}, MaxPhoneLikeLen)

\* Digit strings with rising and falling runs and with 9 next to 0
RunDigitStrings == StringsUpTo({"0", "1", "2", "9"}, MaxDigitLen)

\* Largest min_run
MaxMinRun == 4

\* Longest text given to validate_single_phone
MaxPhoneTextLen == 2

\* The texts validate_single_phone is applied to: what it reads of a text is
\* whether its normalized form is empty
PhoneTexts ==
    {NoneValue, NaNValue}
    \cup {StrValue(s) : s \in StringsUpTo(TextChars, MaxPhoneTextLen)}

\* Names of phonenumbers.PhoneNumberType
PhoneTypes == {"MOBILE", "FIXED_LINE_OR_MOBILE", "FIXED_LINE", "UNKNOWN"}

\* What the library can answer for one text: no number at all, or a number
\* with each combination of possible, valid, line type and inferred region
LibAnswers ==
    {LibNoAnswer}
    \cup [parsed : {TRUE}, possible : BOOLEAN, valid : BOOLEAN,
          ntype : PhoneTypes,
          e164 : {<<"+", "9", "1", "9", "8", "7", "6", "5",
                    "4", "3", "2", "1", "0">>},
          region : {"", "IN", "US"}]

\* The default_region argument: the caller's "rr or default_region"
\* (phone.py:86), which is "" when both are
DefaultRegions == {"", "IN", "US"}

TextInputs ==
    {NoneValue, NaNValue}
    \cup {StrValue(s) : s \in FreeTexts \cup ShortDigitStrings
                              \cup AadhaarLikes \cup IndianE164s
                              \cup PhoneLikes \cup RunDigitStrings}

NormalizeText ==
    /\ tpc = "start"
    /\ text_out' = normalize_text(value)
    /\ tpc' = "normalize_text"
    /\ UNCHANGED <<value, text_prev, vs_out, call_vars, vh_vars,
                   pipe_vars>>

\* normalize_text applied to the string normalize_text returned
NormalizeTextAgain ==
    /\ tpc = "normalize_text"
    /\ text_prev' = text_out
    /\ text_out' = normalize_text(StrValue(text_out))
    /\ tpc' = "normalize_text_twice"
    /\ UNCHANGED <<value, vs_out, call_vars, vh_vars,
                   pipe_vars>>

NormalizeDigits ==
    /\ tpc = "start"
    /\ text_out' = normalize_digits(value)
    /\ tpc' = "normalize_digits"
    /\ UNCHANGED <<value, text_prev, vs_out, call_vars, vh_vars,
                   pipe_vars>>

MaskAadhaar ==
    /\ tpc = "start"
    /\ text_out' = mask_aadhaar(value)
    /\ tpc' = "mask_aadhaar"
    /\ UNCHANGED <<value, text_prev, vs_out, call_vars, vh_vars,
                   pipe_vars>>

ValidateSingle ==
    /\ tpc = "start"
    /\ vs_out' = validate_single(value)
    /\ tpc' = "validate_single"
    /\ UNCHANGED <<value, text_out, text_prev, call_vars, vh_vars,
                   pipe_vars>>

\* mask_e164 takes a str
MaskE164 ==
    /\ tpc = "start"
    /\ value.tag = "str"
    /\ text_out' = mask_e164(value.s)
    /\ tpc' = "mask_e164"
    /\ UNCHANGED <<value, text_prev, vs_out, call_vars, vh_vars,
                   pipe_vars>>

\* validate_single_phone(value, default_region = region), the library
\* answering lib
ValidateSinglePhone ==
    /\ tpc = "start"
    /\ value \in PhoneTexts
    /\ \E lib \in LibAnswers, region \in DefaultRegions :
        /\ vp_lib' = lib
        /\ vp_region' = region
        /\ vp_out' = validate_single_phone(value, region, lib)
    /\ tpc' = "validate_single_phone"
    /\ UNCHANGED <<value, text_out, text_prev, vs_out, min_run, seq_out,
                   vh_vars, pipe_vars>>

\* has_sequential_digits(value, min_run = n) for a digit string
HasSequentialDigits ==
    /\ tpc = "start"
    /\ value.tag = "str"
    /\ value.s \in RunDigitStrings
    /\ \E n \in 1..MaxMinRun :
        /\ min_run' = n
        /\ seq_out' = has_sequential_digits(value.s, n)
    /\ tpc' = "has_sequential_digits"
    /\ UNCHANGED <<value, text_out, text_prev, vs_out, vp_lib, vp_region,
                   vp_out, vh_vars, pipe_vars>>

InitText ==
    /\ VhIdle
    /\ PipeIdle
    /\ tpc = "start"
    /\ value \in TextInputs
    /\ text_out = <<>>
    /\ text_prev = <<>>
    /\ vs_out = [aadhaar |-> <<>>, valid |-> FALSE, reason |-> ""]
    /\ vp_lib = LibNoAnswer
    /\ vp_region = ""
    /\ vp_out = NoPhoneResult
    /\ min_run = 0
    /\ seq_out = FALSE

NextText ==
    \/ NormalizeText
    \/ NormalizeTextAgain
    \/ NormalizeDigits
    \/ MaskAadhaar
    \/ ValidateSingle
    \/ MaskE164
    \/ ValidateSinglePhone
    \/ HasSequentialDigits

SpecText == InitText /\ [][NextText]_vars

\* C6: normalize_text is idempotent: applied to its own result it returns
\* that result.
C6_NormalizeTextIdempotent ==
    tpc = "normalize_text_twice" => text_out = text_prev

\* C7: for "+91" followed by 10 digits, mask_e164 returns "+91-XXX-XXX-"
\* followed by the last 4 digits of the number.
C7_IndianMobileMasked ==
    (tpc = "mask_e164" /\ value.s \in IndianE164s) =>
        text_out = <<"+", "9", "1", "-", "X", "X", "X", "-", "X", "X", "X", "-">>
                   \o SubSeq(value.s, Len(value.s) - 3, Len(value.s))

\* The input is a non-empty digit string and mask_aadhaar was applied to it.
MaskedDigitString ==
    tpc = "mask_aadhaar" /\ value.tag = "str" /\ isdigit(value.s)

\* C8 as stated: for a non-empty digit string d, mask_aadhaar(d) is
\* "XXXX-XXXX-" followed by the final 4 characters of d, or by d itself
\* unchanged when d has fewer than 4 digits.
C8_MaskAadhaarAsIs ==
    MaskedDigitString =>
        text_out = <<"X", "X", "X", "X", "-", "X", "X", "X", "X", "-">>
                   \o (IF Len(value.s) >= 4
                       THEN SubSeq(value.s, Len(value.s) - 3, Len(value.s))
                       ELSE value.s)

\* C8, amended: for a non-empty digit string d, mask_aadhaar(d) is
\* "XXXX-XXXX-" followed by a field of width 4 that holds the final 4
\* characters of d, or, when d has fewer than 4 digits, d right-aligned after
\* spaces; "234123412346" masks to "XXXX-XXXX-2346"; no digit of d other than
\* its last 4 appears in the result.
C8_MaskAadhaarRightAligned ==
    MaskedDigitString =>
        LET d == value.s
            k == IF Len(d) >= 4 THEN 4 ELSE Len(d)
        IN /\ Len(text_out) = 14
           /\ SubSeq(text_out, 1, 10) =
                <<"X", "X", "X", "X", "-", "X", "X", "X", "X", "-">>
           /\ \A j \in 11..(14 - k) : text_out[j] = " "
           /\ \A j \in 1..k : text_out[14 - k + j] = d[Len(d) - k + j]
           /\ (d = <<"2", "3", "4", "1", "2", "3", "4", "1", "2", "3", "4", "6">>
               => text_out = <<"X", "X", "X", "X", "-", "X", "X", "X", "X", "-",
                               "2", "3", "4", "6">>)

\* A digit string shorter than 4 was masked: its digits end the result.
C8_Witness ==
    /\ MaskedDigitString /\ value.s = <<"3", "1", "2">>
    /\ text_out = <<"X", "X", "X", "X", "-", "X", "X", "X", "X", "-",
                    " ", "3", "1", "2">>

\* The digit characters of the input value, in order
DigitsOfInput ==
    IF value.tag = "None" THEN <<>> ELSE StripNonDigits(str_value(value))

\* C9: validate_single decides by first match over the digit string d of the
\* input: MISSING if d is empty, else LENGTH_NEQ_12 if d has not 12 digits,
\* else CHECKSUM_FAIL if Verhoeff rejects d, else valid with reason "". So
\* valid iff reason is "" iff d has 12 digits and passes Verhoeff.
C9_ValidateSinglePriority ==
    tpc = "validate_single" =>
        LET d == DigitsOfInput
        IN /\ vs_out.aadhaar = d
           /\ vs_out.reason =
                (IF d = <<>> THEN "MISSING"
                 ELSE IF Len(d) # 12 THEN "LENGTH_NEQ_12"
                 ELSE IF ~verhoeff_validate(d) THEN "CHECKSUM_FAIL"
                 ELSE "")
           /\ vs_out.valid <=> (vs_out.reason = "")
           /\ vs_out.valid <=> (Len(d) = 12 /\ verhoeff_validate(d))

\* A 12-digit number written with a separator was found valid.
C9_Witness ==
    /\ tpc = "validate_single" /\ vs_out.valid /\ vs_out.reason = ""
    /\ Len(value.s) = 13 /\ Len(vs_out.aadhaar) = 12

\* C10: an input whose normalized text holds a digit and a character that is
\* neither digit nor whitespace gets reason NON_NUMERIC.
C10_NonNumericReported ==
    (/\ tpc = "validate_single"
     /\ LET t == normalize_text(value)
        IN /\ \E k \in 1..Len(t) : t[k] \in DigitChars
           /\ \E k \in 1..Len(t) : t[k] \notin DigitChars \cup Whitespace)
    => vs_out.reason = "NON_NUMERIC"

\* C12: mask_e164 returns "" for the empty input; for every non-empty input
\* that does not match the canonical shape it returns
\* "+CC-****-****-<last4 digits>" when the input begins with "+" and a
\* country-code-looking prefix (its next up to 3 characters, all digits), and
\* otherwise the generic "***-***-<last4 digits>".
C12_MaskFallback ==
    tpc = "mask_e164" =>
        LET s == value.s
            digits == StripNonDigits(s)
            last4 == IF Len(digits) >= 4 THEN LastK(digits, 4) ELSE digits
            cc == IF s # <<>> /\ Head(s) = "+" /\ isdigit(Slice(s, 1, 4))
                  THEN Slice(s, 1, 4) ELSE <<>>
        IN IF s = <<>> THEN text_out = <<>>
           ELSE ~E164Matches(s) =>
                text_out =
                  (IF cc # <<>>
                   THEN <<"+">> \o cc
                        \o <<"-", "*", "*", "*", "*", "-", "*", "*", "*", "*", "-">>
                        \o last4
                   ELSE <<"*", "*", "*", "-", "*", "*", "*", "-">> \o last4)

\* Whether the digit string s has a contiguous run of n digits that rises by
\* exactly one at each step, or falls by exactly one at each step
HasRun(s, n) ==
    \E a \in 1..(Len(s) - n + 1) :
        \/ \A j \in a..(a + n - 2) : DigitValue[s[j + 1]] = DigitValue[s[j]] + 1
        \/ \A j \in a..(a + n - 2) : DigitValue[s[j + 1]] = DigitValue[s[j]] - 1

\* C16: for every digit string s and every minRun >= 1,
\* has_sequential_digits(s, minRun) is true iff s contains a contiguous run of
\* at least minRun digits, each exactly one more than its predecessor
\* throughout or exactly one less throughout, with no wrap between 9 and 0.
C16_SequentialRunExact ==
    tpc = "has_sequential_digits" =>
        (seq_out <=> \E n \in min_run..Len(value.s) : HasRun(value.s, n))

\* C11: validate_single_phone decides by first match: MISSING if the
\* normalized text is empty, else PARSE_FAIL if the parser rejects it, else
\* NOT_VALID if the number is not possible or not valid, else NOT_MOBILE_TYPE
\* if its line type is neither MOBILE nor FIXED_LINE_OR_MOBILE, else valid with
\* reason "", e164 the canonical form and region the inferred region or, when
\* none is inferred, the supplied default. valid iff reason is "", and e164 is
\* non-empty only when valid.
C11_PhonePriority ==
    tpc = "validate_single_phone" =>
        /\ vp_out.reason =
             (IF normalize_text(value) = <<>> THEN "MISSING"
              ELSE IF ~vp_lib.parsed THEN "PARSE_FAIL"
              ELSE IF ~vp_lib.possible \/ ~vp_lib.valid THEN "NOT_VALID"
              ELSE IF vp_lib.ntype \notin {"MOBILE", "FIXED_LINE_OR_MOBILE"}
              THEN "NOT_MOBILE_TYPE"
              ELSE "")
        /\ vp_out.valid <=> (vp_out.reason = "")
        /\ vp_out.valid =>
             /\ vp_out.e164 = vp_lib.e164
             /\ vp_out.region = (IF vp_lib.region # "" THEN vp_lib.region
                                 ELSE vp_region)
        /\ (vp_out.e164 # <<>>) => vp_out.valid

\* A number of type FIXED_LINE_OR_MOBILE with no inferred region was found
\* valid and took the supplied default region.
C11_Witness ==
    /\ tpc = "validate_single_phone" /\ vp_out.valid /\ vp_out.reason = ""
    /\ vp_lib.ntype = "FIXED_LINE_OR_MOBILE" /\ vp_lib.region = ""
    /\ vp_region = "US" /\ vp_out.region = "US" /\ vp_out.e164 # <<>>

------------------------------------------------------------------------------
(* The batch pipeline: app.py:178-253 *)

\* Most rows of an uploaded table
MaxRows == 3

\* app.py:68
DedupModes == {"None", "Aadhaar", "Mobile", "Aadhaar+Mobile"}

\* app.py:66, the sidebar's default; no country column is selected
default_region == "IN"

\* Aadhaar cells: an empty cell, a valid number written in groups, and a
\* number that is too short
AadhaarCells ==
    { NaNValue,
      StrValue(<<"2", "3", "4", "1", " ", "2", "3", "4", "1", " ",
                 "2", "3", "4", "6">>),
      StrValue(<<"1", "2", "3", "4">>) }

\* Mobile cells with the library's answers for them: an empty cell (the
\* library is never asked), a valid Indian mobile number, a text the library
\* cannot parse
MobileCells ==
    { [raw |-> NaNValue, lib |-> LibNoAnswer],
      [raw |-> StrValue(<<"9", "8", "7", "6", "5", " ", "4", "3", "2", "1", "0">>),
       lib |-> [parsed |-> TRUE, possible |-> TRUE, valid |-> TRUE,
                ntype |-> "MOBILE",
                e164 |-> <<"+", "9", "1", "9", "8", "7", "6", "5",
                           "4", "3", "2", "1", "0">>,
                region |-> "IN"]],
      [raw |-> StrValue(<<"n", "a">>), lib |-> LibNoAnswer] }

InputRows == [aadhaar : AadhaarCells, mobile : MobileCells]

Batches == UNION {[1..n -> InputRows] : n \in 0..MaxRows}

\* The indices among the first n rows of the table that keep_mask keeps
\* (app.py:188-190), in order
RECURSIVE KeptIndices(_, _)
KeptIndices(table, n) ==
    IF n = 0 THEN <<>>
    ELSE LET tmp_a == normalize_text(table[n].aadhaar_raw)
             tmp_m == normalize_text(table[n].mobile_raw)
         IN IF tmp_a # <<>> \/ tmp_m # <<>>
            THEN Append(KeptIndices(table, n - 1), n)
            ELSE KeptIndices(table, n - 1)

\* app.py:179-197: the working frame, without the rows empty in both fields
BuildAndFilter ==
    /\ pc = "loaded"
    /\ LET kept == KeptIndices(df, Len(df))
       IN /\ work' = [k \in 1..Len(kept) |->
                        [idx |-> kept[k],
                         aadhaar_raw |-> df[kept[k]].aadhaar_raw,
                         mobile_raw |-> df[kept[k]].mobile_raw,
                         country |-> default_region]]
          /\ dropped_all_empty' = Len(df) - Len(kept)
          /\ pc' = IF kept = <<>> THEN "stopped" ELSE "filtered"
    /\ UNCHANGED <<artifacts, df, phone_lib, dedup_mode, dedup_applied, stats,
                   vh_vars, text_vars>>

\* ind_aadhaar.py:85-95, the columns app.py reads of one row of its result
validate_aadhaar_row(raw) ==
    LET s == normalize_digits(raw)
        r == validate_single(StrValue(s))
    IN [aadhaar |-> r.aadhaar, valid |-> r.valid, reason |-> r.reason,
        category |-> category_aadhaar(r.reason)]

\* app.py:199-206
ValidateAadhaar ==
    /\ pc = "filtered"
    /\ work' = [k \in 1..Len(work) |->
                  LET a == validate_aadhaar_row(work[k].aadhaar_raw)
                  IN work[k] @@
                     [aadhaar_clean |-> a.aadhaar,
                      aadhaar_valid |-> a.valid,
                      aadhaar_reason |-> a.reason,
                      aadhaar_category |-> a.category,
                      aadhaar_masked |-> mask_aadhaar(StrValue(a.aadhaar))]]
    /\ pc' = "aadhaar_validated"
    /\ UNCHANGED <<artifacts, df, phone_lib, dedup_mode, dropped_all_empty,
                   dedup_applied, stats, vh_vars, text_vars>>

\* phone.py:75-89, one row: rr is the row's region
validate_phone_row(raw, rr, lib) ==
    LET r == validate_single_phone(raw, IF rr # "" THEN rr ELSE default_region,
                                   lib)
    IN [raw |-> r.raw, e164 |-> r.e164, valid |-> r.valid, reason |-> r.reason,
        region |-> r.region, type |-> r.type, masked |-> mask_e164(r.e164)]

\* app.py:208-220
ValidateMobile ==
    /\ pc = "aadhaar_validated"
    /\ work' = [k \in 1..Len(work) |->
                  LET m == validate_phone_row(work[k].mobile_raw,
                                              work[k].country,
                                              phone_lib[work[k].idx])
                  IN work[k] @@
                     [mobile_e164 |-> m.e164,
                      mobile_valid |-> m.valid,
                      mobile_reason |-> m.reason,
                      mobile_region |-> m.region,
                      mobile_type |-> m.type,
                      mobile_masked |-> m.masked]]
    /\ pc' = "mobile_validated"
    /\ UNCHANGED <<artifacts, df, phone_lib, dedup_mode, dropped_all_empty,
                   dedup_applied, stats, vh_vars, text_vars>>

\* The subset of columns drop_duplicates compares, as one key (app.py:224-229)
DedupKey(mode, row) ==
    CASE mode = "Aadhaar" -> <<row.aadhaar_clean>>
      [] mode = "Mobile" -> <<row.mobile_e164>>
      [] mode = "Aadhaar+Mobile" -> <<row.aadhaar_clean, row.mobile_e164>>

\* Whether row n of rows repeats the key of an earlier row
IsDuplicate(rows, mode, n) ==
    \E j \in 1..(n - 1) : DedupKey(mode, rows[j]) = DedupKey(mode, rows[n])

\* Mutant of drop_duplicates: keep="last"
RECURSIVE drop_duplicates_keep_last(_, _, _)
drop_duplicates_keep_last(rows, mode, n) ==
    IF n = 0 THEN <<>>
    ELSE IF \E j \in (n + 1)..Len(rows) :
                DedupKey(mode, rows[j]) = DedupKey(mode, rows[n])
    THEN drop_duplicates_keep_last(rows, mode, n - 1)
    ELSE Append(drop_duplicates_keep_last(rows, mode, n - 1), rows[n])

\* Mutant of drop_duplicates: a row whose key is empty is never a duplicate
RECURSIVE drop_duplicates_keep_empty(_, _, _)
drop_duplicates_keep_empty(rows, mode, n) ==
    IF n = 0 THEN <<>>
    ELSE IF /\ IsDuplicate(rows, mode, n)
            /\ \E j \in 1..Len(DedupKey(mode, rows[n])) :
                    DedupKey(mode, rows[n])[j] # <<>>
    THEN drop_duplicates_keep_empty(rows, mode, n - 1)
    ELSE Append(drop_duplicates_keep_empty(rows, mode, n - 1), rows[n])

\* DataFrame.drop_duplicates(subset=...), keep="first" by default, over the
\* first n rows
RECURSIVE drop_duplicates(_, _, _)
drop_duplicates(rows, mode, n) ==
    IF n = 0 THEN <<>>
    ELSE IF IsDuplicate(rows, mode, n) THEN drop_duplicates(rows, mode, n - 1)
    ELSE Append(drop_duplicates(rows, mode, n - 1), rows[n])

\* app.py:222-229. mode is the sidebar's selection (app.py:68), which nothing
\* reads before this step.
Deduplicate ==
    /\ pc = "mobile_validated"
    /\ \E mode \in DedupModes :
        /\ dedup_mode' = mode
        /\ IF mode \in {"Aadhaar", "Mobile", "Aadhaar+Mobile"}
           THEN LET before_d == Len(work)
                    after == drop_duplicates(work, mode, Len(work))
                IN /\ work' = after
                   /\ dedup_applied' = before_d - Len(after)
           ELSE /\ work' = work
                /\ dedup_applied' = 0
    /\ pc' = "deduped"
    /\ UNCHANGED <<artifacts, df, phone_lib, dropped_all_empty, stats, vh_vars,
                   text_vars>>

\* Mutant of overall_valid: with both present, either field valid suffices
overall_valid_either(row) ==
    LET aadhaar_present == row.aadhaar_clean # <<>>
        mobile_present == row.mobile_e164 # <<>>
        both_present == aadhaar_present /\ mobile_present
        only_a == aadhaar_present /\ ~mobile_present
        only_m == mobile_present /\ ~aadhaar_present
    IN \/ (both_present /\ (row.aadhaar_valid \/ row.mobile_valid))
       \/ (only_a /\ row.aadhaar_valid)
       \/ (only_m /\ row.mobile_valid)

\* Mutant of overall_valid: the mobile is present when its text is not empty
overall_valid_text_present(row) ==
    LET aadhaar_present == row.aadhaar_clean # <<>>
        mobile_present == normalize_text(row.mobile_raw) # <<>>
        both_present == aadhaar_present /\ mobile_present
        only_a == aadhaar_present /\ ~mobile_present
        only_m == mobile_present /\ ~aadhaar_present
    IN \/ (both_present /\ (row.aadhaar_valid /\ row.mobile_valid))
       \/ (only_a /\ row.aadhaar_valid)
       \/ (only_m /\ row.mobile_valid)

\* app.py:231-242, one row
overall_valid(row) ==
    LET aadhaar_present == row.aadhaar_clean # <<>>
        mobile_present == row.mobile_e164 # <<>>
        both_present == aadhaar_present /\ mobile_present
        only_a == aadhaar_present /\ ~mobile_present
        only_m == mobile_present /\ ~aadhaar_present
    IN \/ (both_present /\ (row.aadhaar_valid /\ row.mobile_valid))
       \/ (only_a /\ row.aadhaar_valid)
       \/ (only_m /\ row.mobile_valid)

\* app.py:231-243
OverallValidity ==
    /\ pc = "deduped"
    /\ work' = [k \in 1..Len(work) |->
                  work[k] @@ [overall_valid |-> overall_valid(work[k])]]
    /\ pc' = "overall"
    /\ UNCHANGED <<artifacts, df, phone_lib, dedup_mode, dropped_all_empty,
                   dedup_applied, stats, vh_vars, text_vars>>

\* app.py:245-253
Summary ==
    /\ pc = "overall"
    /\ LET processed == Len(work)
           rows == 1..Len(work)
       IN stats' =
            [total_rows |-> Len(df),
             processed |-> processed,
             distinct_after |-> processed,
             aadhaar_valid_count |->
                Cardinality({k \in rows : work[k].aadhaar_valid}),
             aadhaar_invalid_count |->
                Cardinality({k \in rows : ~work[k].aadhaar_valid
                                          /\ work[k].aadhaar_clean # <<>>}),
             mobile_valid_count |->
                Cardinality({k \in rows : work[k].mobile_valid}),
             mobile_invalid_count |->
                Cardinality({k \in rows : ~work[k].mobile_valid
                                          /\ work[k].mobile_e164 # <<>>}),
             overall_valid_count |->
                Cardinality({k \in rows : work[k].overall_valid})]
    /\ pc' = "summarised"
    /\ UNCHANGED <<artifacts, df, phone_lib, dedup_mode, work, dropped_all_empty,
                   dedup_applied, vh_vars, text_vars>>

Init ==
    /\ VhIdle
    /\ TextIdle
    /\ pc = "loaded"
    /\ \E batch \in Batches :
        /\ df = [k \in 1..Len(batch) |->
                   [aadhaar_raw |-> batch[k].aadhaar,
                    mobile_raw |-> batch[k].mobile.raw]]
        /\ phone_lib = [k \in 1..Len(batch) |-> batch[k].mobile.lib]
    /\ dedup_mode = "None"
    /\ work = <<>>
    /\ dropped_all_empty = 0
    /\ dedup_applied = 0
    /\ stats = NoStats
    /\ artifacts = {}

Next ==
    \/ BuildAndFilter
    \/ ValidateAadhaar
    \/ ValidateMobile
    \/ Deduplicate
    \/ OverallValidity
    \/ Summary

Spec == Init /\ [][Next]_vars

------------------------------------------------------------------------------
(* Results, exports and the saved run: app.py:282-369, local_store.py:33-81.  *)
(* A file is a record of its name, the label it is offered or written under  *)
(* ("masked" or "unmasked"), its columns and its rows.                        *)

\* The names of the columns of the working frame (app.py:180-182, 201-205,
\* 214-219, 243) and of those _masked_only asks for, each as the words
\* between its underscores
ColumnWords ==
    [aadhaar_raw |-> <<"aadhaar", "raw">>,
     mobile_raw |-> <<"mobile", "raw">>,
     country |-> <<"country">>,
     aadhaar_clean |-> <<"aadhaar", "clean">>,
     aadhaar_valid |-> <<"aadhaar", "valid">>,
     aadhaar_reason |-> <<"aadhaar", "reason">>,
     aadhaar_category |-> <<"aadhaar", "category">>,
     aadhaar_masked |-> <<"aadhaar", "masked">>,
     mobile_e164 |-> <<"mobile", "e164">>,
     mobile_valid |-> <<"mobile", "valid">>,
     mobile_reason |-> <<"mobile", "reason">>,
     mobile_region |-> <<"mobile", "region">>,
     mobile_type |-> <<"mobile", "type">>,
     mobile_masked |-> <<"mobile", "masked">>,
     overall_valid |-> <<"overall", "valid">>]

\* word in c, for a word without underscore: no column name holds one of the
\* words tested across an underscore or inside a longer word
InName(word, c) == \E k \in 1..Len(ColumnWords[c]) : ColumnWords[c][k] = word

\* df.columns of the working frame and of every selection of its rows; idx is
\* the frame's index, which to_csv(index=False) does not write
Columns == DOMAIN work[1] \ {"idx"}

\* frame[cols] written out: every row, the given columns
Written(name, label, frame, cols) ==
    [name |-> name, label |-> label, columns |-> cols,
     rows |-> [k \in 1..Len(frame) |-> [c \in cols |-> frame[k][c]]]]

\* local_store.py:46-63: the columns _masked_only keeps of a frame's columns
_masked_only(columns) ==
    LET keep == {c \in columns :
                    \/ InName("masked", c)
                    \/ InName("reason", c)
                    \/ InName("category", c)
                    \/ c \in {"country", "region", "overall_valid",
                               "aadhaar_valid", "mobile_valid"}}
    IN keep
       \cup (columns \cap {"aadhaar_masked", "mobile_masked"})
       \cup (columns \cap {"source_row_index"})
       \cup (columns \cap {"aadhaar_reason", "mobile_reason",
                            "aadhaar_category", "mobile_category"})

\* app.py:297, 303, 310 and 364-366: the three selections of rows
valid_records == SelectSeq(work, LAMBDA r : r.overall_valid)

invalid_a ==
    SelectSeq(work, LAMBDA r : r.aadhaar_clean # <<>> /\ ~r.aadhaar_valid)

invalid_m ==
    SelectSeq(work, LAMBDA r : r.mobile_e164 # <<>> /\ ~r.mobile_valid)

\* app.py:282-322: the four tabs and the "(masked)" download each offers; the
\* first three only for a selection that is not empty
Results ==
    /\ pc = "summarised"
    /\ artifacts' =
         {Written("valid_masked.csv", "masked", valid_records, Columns) :
             x \in {y \in {1} : valid_records # <<>>}}
         \cup {Written("invalid_aadhaar_masked.csv", "masked", invalid_a,
                       Columns) :
             x \in {y \in {1} : invalid_a # <<>>}}
         \cup {Written("invalid_mobile_masked.csv", "masked", invalid_m,
                       Columns) :
             x \in {y \in {1} : invalid_m # <<>>}}
         \cup {Written("processed_masked.csv", "masked", work, Columns)}
    /\ pc' = "results"
    /\ UNCHANGED <<df, phone_lib, dedup_mode, work, dropped_all_empty,
                   dedup_applied, stats, vh_vars, text_vars>>

\* app.py:328-331: the button "Prepare VALID (unmasked) CSV" is pressed
PrepareValidUnmasked ==
    /\ pc = "results"
    /\ artifacts' = artifacts \cup
         {Written("valid_unmasked.csv", "unmasked", valid_records, Columns)}
    /\ pc' = "unmasked_prepared"
    /\ UNCHANGED <<df, phone_lib, dedup_mode, work, dropped_all_empty,
                   dedup_applied, stats, vh_vars, text_vars>>

\* app.py:332-335
PrepareInvalidAadhaarUnmasked ==
    /\ pc = "results"
    /\ artifacts' = artifacts \cup
         {Written("invalid_aadhaar_unmasked.csv", "unmasked", invalid_a,
                  Columns)}
    /\ pc' = "unmasked_prepared"
    /\ UNCHANGED <<df, phone_lib, dedup_mode, work, dropped_all_empty,
                   dedup_applied, stats, vh_vars, text_vars>>

\* app.py:336-339
PrepareInvalidMobileUnmasked ==
    /\ pc = "results"
    /\ artifacts' = artifacts \cup
         {Written("invalid_mobile_unmasked.csv", "unmasked", invalid_m,
                  Columns)}
    /\ pc' = "unmasked_prepared"
    /\ UNCHANGED <<df, phone_lib, dedup_mode, work, dropped_all_empty,
                   dedup_applied, stats, vh_vars, text_vars>>

\* local_store.py:33-81 as app.py:343-368 calls it; the Parquet files are
\* written only where a Parquet engine is installed (local_store.py:7-11)
save_run(full_df, valid_df, invalid_a_df, invalid_m_df, _HAS_PARQUET) ==
    LET masked == _masked_only(Columns)
    IN {Written("processed.csv", "masked", full_df, masked),
        Written("valid.csv", "masked", valid_df, masked),
        Written("invalid_aadhaar.csv", "masked", invalid_a_df, masked),
        Written("invalid_mobile.csv", "masked", invalid_m_df, masked)}
       \cup (IF _HAS_PARQUET
             THEN {Written("processed.parquet", "masked", full_df, masked),
                   Written("valid.parquet", "masked", valid_df, masked),
                   Written("invalid_aadhaar.parquet", "masked", invalid_a_df,
                           masked),
                   Written("invalid_mobile.parquet", "masked", invalid_m_df,
                           masked)}
             ELSE {})

\* app.py:341-369: the button "Save to ./runs" is pressed
SaveRun ==
    /\ pc = "results"
    /\ \E has_parquet \in BOOLEAN :
        artifacts' = artifacts \cup
            save_run(work, valid_records, invalid_a, invalid_m, has_parquet)
    /\ pc' = "saved"
    /\ UNCHANGED <<df, phone_lib, dedup_mode, work, dropped_all_empty,
                   dedup_applied, stats, vh_vars, text_vars>>

\* Most rows of a table whose run is followed to its exports
MaxRunRows == 2

\* Mobile cells for such a run: those of MobileCells, a number the library
\* parses and finds not valid, and a valid landline
RunMobileCells ==
    MobileCells
    \cup { [raw |-> StrValue(<<"1", "2", "3", "4", "5">>),
            lib |-> [parsed |-> TRUE, possible |-> FALSE, valid |-> FALSE,
                     ntype |-> "UNKNOWN",
                     e164 |-> <<"+", "9", "1", "1", "2", "3", "4", "5">>,
                     region |-> ""]],
           [raw |-> StrValue(<<"0", "1", "1", " ", "2", "3", "4", "5", "6",
                               "7", "8", "9">>),
            lib |-> [parsed |-> TRUE, possible |-> TRUE, valid |-> TRUE,
                     ntype |-> "FIXED_LINE",
                     e164 |-> <<"+", "9", "1", "1", "1", "2", "3", "4", "5",
                                "6", "7", "8", "9">>,
                     region |-> "IN"]] }

RunRows == [aadhaar : AadhaarCells, mobile : RunMobileCells]

RunBatches == UNION {[1..n -> RunRows] : n \in 0..MaxRunRows}

InitRun ==
    /\ VhIdle
    /\ TextIdle
    /\ pc = "loaded"
    /\ \E batch \in RunBatches :
        /\ df = [k \in 1..Len(batch) |->
                   [aadhaar_raw |-> batch[k].aadhaar,
                    mobile_raw |-> batch[k].mobile.raw]]
        /\ phone_lib = [k \in 1..Len(batch) |-> batch[k].mobile.lib]
    /\ dedup_mode = "None"
    /\ work = <<>>
    /\ dropped_all_empty = 0
    /\ dedup_applied = 0
    /\ stats = NoStats
    /\ artifacts = {}

NextRun ==
    \/ BuildAndFilter
    \/ ValidateAadhaar
    \/ ValidateMobile
    \/ Deduplicate
    \/ OverallValidity
    \/ Summary
    \/ Results
    \/ PrepareValidUnmasked
    \/ PrepareInvalidAadhaarUnmasked
    \/ PrepareInvalidMobileUnmasked
    \/ SaveRun

SpecRun == InitRun /\ [][NextRun]_vars

------------------------------------------------------------------------------
(* Properties of the pipeline *)

\* C1: the reported counters reconcile: total_rows = processed +
\* dropped_all_empty and processed = distinct_after + dedup_applied, in every
\* dedup mode.
C1_CountersReconcile ==
    pc = "summarised" =>
        /\ stats.total_rows = stats.processed + dropped_all_empty
        /\ stats.processed = stats.distinct_after + dedup_applied

\* The rows of the table that pass the empty-row filter, and the key of each
\* in a dedup mode, computed from the table itself
SourceKept == {i \in 1..Len(df) :
                 \/ normalize_text(df[i].aadhaar_raw) # <<>>
                 \/ normalize_text(df[i].mobile_raw) # <<>>}

SourceKey(mode, i) ==
    LET a == validate_single(df[i].aadhaar_raw).aadhaar
        m == validate_single_phone(df[i].mobile_raw, default_region,
                                   phone_lib[i]).e164
    IN CASE mode = "Aadhaar" -> <<a>>
         [] mode = "Mobile" -> <<m>>
         [] mode = "Aadhaar+Mobile" -> <<a, m>>

AfterDedup == pc \in {"deduped", "overall", "summarised"}

\* C2: in every dedup mode other than None, the rows kept are exactly the
\* first row of each distinct key, in their original order; every later row
\* with a key already kept is dropped; dedup_applied is the number dropped.
C2_FirstOccurrenceWins ==
    (AfterDedup /\ dedup_mode # "None") =>
        LET kept == {work[k].idx : k \in 1..Len(work)}
            source == SourceKept
            key == [i \in 1..Len(df) |-> SourceKey(dedup_mode, i)]
        IN /\ \A k \in 1..Len(work), l \in 1..Len(work) :
                k < l => work[k].idx < work[l].idx
           /\ \A i \in source :
                i \in kept <=> ~\E j \in source : j < i /\ key[j] = key[i]
           /\ kept \subseteq source
           /\ \A k \in 1..Len(work) :
                DedupKey(dedup_mode, work[k]) = key[work[k].idx]
           /\ dedup_applied = Cardinality(source) - Cardinality(kept)

\* A row between two kept rows was dropped as a duplicate of the first.
C2_Witness ==
    /\ pc = "deduped" /\ dedup_mode = "Aadhaar" /\ dedup_applied = 1
    /\ Len(work) = 2 /\ work[1].idx = 1 /\ work[2].idx = 3
    /\ work[1].aadhaar_clean # <<>>

\* C3: overall_valid is aadhaar_valid and mobile_valid when both identifiers
\* are present, aadhaar_valid when only Aadhaar is, mobile_valid when only
\* mobile is, and false when neither is.
C3_OverallValidByPresence ==
    pc \in {"overall", "summarised"} =>
        \A k \in 1..Len(work) :
            LET r == work[k]
                aadhaarPresent == r.aadhaar_clean # <<>>
                mobilePresent == r.mobile_e164 # <<>>
            IN CASE aadhaarPresent /\ mobilePresent ->
                      r.overall_valid = (r.aadhaar_valid /\ r.mobile_valid)
                 [] aadhaarPresent /\ ~mobilePresent ->
                      r.overall_valid = r.aadhaar_valid
                 [] ~aadhaarPresent /\ mobilePresent ->
                      r.overall_valid = r.mobile_valid
                 [] OTHER -> r.overall_valid = FALSE

\* One batch with a row of each kind: both present and only one valid, only
\* Aadhaar present, only mobile present, neither present.
C3_Witness ==
    /\ pc = "overall" /\ Len(work) = 3
    /\ work[1].aadhaar_clean # <<>> /\ work[1].mobile_e164 # <<>>
    /\ ~work[1].aadhaar_valid /\ work[1].mobile_valid /\ ~work[1].overall_valid
    /\ work[2].aadhaar_clean # <<>> /\ work[2].mobile_e164 = <<>>
    /\ work[2].overall_valid
    /\ work[3].aadhaar_clean = <<>> /\ work[3].mobile_e164 = <<>>
    /\ ~work[3].overall_valid

\* The four columns that hold an identifier unmasked
UnmaskedColumns == {"aadhaar_raw", "mobile_raw", "aadhaar_clean", "mobile_e164"}

\* C13: no file labelled masked holds an unmasked identifier: the files
\* save_run writes and the "(masked)" CSV downloads have none of the columns
\* aadhaar_raw, mobile_raw, aadhaar_clean, mobile_e164; only the files of the
\* unmasked exports have them.
C13_MaskedArtifactsExcludeUnmasked ==
    \A f \in artifacts :
        (f.columns \cap UnmaskedColumns # {}) => f.label = "unmasked"

\* Whether a written row has a column whose name holds each of the words
HasColumn(row, words) ==
    \E c \in DOMAIN row : \A w \in words : InName(w, c)

\* C14: every row of the run artifact save_run writes carries the masked
\* Aadhaar, the masked mobile, the Aadhaar reason, the mobile reason, the
\* Aadhaar category, the mobile category, the mobile region, the mobile line
\* type and the overall-valid flag.
C14_SavedRowsCarryAllFields ==
    \A f \in artifacts :
        f.name \in {"processed.csv", "processed.parquet"} =>
            \A k \in 1..Len(f.rows) :
                /\ HasColumn(f.rows[k], {"aadhaar", "masked"})
                /\ HasColumn(f.rows[k], {"mobile", "masked"})
                /\ HasColumn(f.rows[k], {"aadhaar", "reason"})
                /\ HasColumn(f.rows[k], {"mobile", "reason"})
                /\ HasColumn(f.rows[k], {"aadhaar", "category"})
                /\ HasColumn(f.rows[k], {"mobile", "category"})
                /\ HasColumn(f.rows[k], {"region"})
                /\ HasColumn(f.rows[k], {"type"})
                /\ HasColumn(f.rows[k], {"overall", "valid"})

\* C15: after the empty-row filter no row with neither field present remains:
\* every row kept for validation has aadhaar_clean # "" or mobile_e164 # "",
\* and every row the filter dropped is counted in dropped_all_empty.
C15_NoAbsentRowKept ==
    pc \in {"mobile_validated", "deduped", "overall", "summarised"} =>
        /\ \A k \in 1..Len(work) :
              work[k].aadhaar_clean # <<>> \/ work[k].mobile_e164 # <<>>
        /\ dropped_all_empty = Len(df) - Cardinality(SourceKept)

\* The reasons of a mobile text that is not empty and fails validation
FailedMobileReasons == {"PARSE_FAIL", "NOT_VALID", "NOT_MOBILE_TYPE"}

\* C17: a row whose mobile text is not empty but fails phone validation
\* (PARSE_FAIL, NOT_VALID or NOT_MOBILE_TYPE) has an empty mobile_e164 and is
\* treated as mobile-absent: its overall_valid equals its aadhaar_valid, so
\* with a valid Aadhaar it is overall valid; and mobile_invalid_count counts
\* no such row.
C17_FailedMobileIsAbsent ==
    /\ pc \in {"overall", "summarised", "results", "unmasked_prepared", "saved"} =>
          \A k \in 1..Len(work) :
              work[k].mobile_reason \in FailedMobileReasons =>
                  /\ normalize_text(work[k].mobile_raw) # <<>>
                  /\ work[k].mobile_e164 = <<>>
                  /\ work[k].overall_valid = work[k].aadhaar_valid
    /\ pc \in {"summarised", "results", "unmasked_prepared", "saved"} =>
          stats.mobile_invalid_count =
             Cardinality({k \in 1..Len(work) :
                            /\ ~work[k].mobile_valid
                            /\ work[k].mobile_e164 # <<>>
                            /\ work[k].mobile_reason \notin FailedMobileReasons})

\* A valid Aadhaar beside a valid landline number, and one beside a number
\* that is not valid: both rows are overall valid and no invalid mobile is
\* counted.
C17_Witness ==
    /\ pc = "summarised" /\ Len(work) = 2
    /\ work[1].aadhaar_valid /\ work[1].mobile_reason = "NOT_MOBILE_TYPE"
    /\ work[1].overall_valid
    /\ work[2].aadhaar_valid /\ work[2].mobile_reason = "NOT_VALID"
    /\ work[2].overall_valid
    /\ stats.mobile_invalid_count = 0

\* The rows that pass the empty-row filter and have an empty key in a mode
EmptyKeySource(mode) ==
    {i \in SourceKept : SourceKey(mode, i) = <<<<>>>>}

\* The rows of the working frame with an empty key in a mode
EmptyKeyKept(mode) ==
    {k \in 1..Len(work) : DedupKey(mode, work[k]) = <<<<>>>>}

\* C18: deduplication treats the empty key as an ordinary key: in mode Aadhaar
\* at most one row with aadhaar_clean = "" survives, in mode Mobile at most one
\* row with mobile_e164 = "" survives, whatever the other field holds: the
\* first such row; every further one is dropped and counted in dedup_applied.
C18_EmptyKeyDeduplicated ==
    (pc \in {"deduped", "overall", "summarised"}
     /\ dedup_mode \in {"Aadhaar", "Mobile"}) =>
        LET source == EmptyKeySource(dedup_mode)
            kept == EmptyKeyKept(dedup_mode)
        IN /\ Cardinality(kept) <= 1
           /\ \A k \in kept : \A i \in source : work[k].idx <= i
           /\ (source # {}) => Cardinality(kept) = 1
           /\ dedup_applied >= Cardinality(source) - Cardinality(kept)

\* In mode Mobile, of three rows without a canonical mobile number (an empty
\* cell beside one Aadhaar, an unparsable text beside another and beside
\* none) only the first survives and two duplicates are counted.
C18_Witness ==
    /\ pc = "deduped" /\ dedup_mode = "Mobile"
    /\ Len(df) = 3 /\ Len(work) = 1 /\ dedup_applied = 2
    /\ work[1].idx = 1 /\ work[1].mobile_e164 = <<>>
    /\ work[1].mobile_reason = "MISSING" /\ work[1].aadhaar_valid
    /\ phone_lib[2] = LibNoAnswer /\ normalize_text(df[2].mobile_raw) # <<>>
    /\ validate_single(df[2].aadhaar_raw).reason = "LENGTH_NEQ_12"
    /\ validate_single(df[3].aadhaar_raw).reason = "MISSING"

====
